---------------------------- MODULE Spec2Model ----------------------------
(***************************************************************************)
(* A model of the UPI QR Telegram bot (bot.py, db.py).                     *)
(*                                                                         *)
(* Text is a sequence of characters, each character a string of length one *)
(* ("a", "@", "\n"); three characters are written by their code point:     *)
(* "U+0060" (grave accent), "U+00E9" (e-acute) and "U+0663" (Arabic-Indic  *)
(* digit three).  One specification per area of the program:               *)
(*   SpecValidate   is_valid_upi_id, is_valid_amount on bounded strings    *)
(*   SpecLink       build_upi_link on validated ids and amounts            *)
(*   SpecQr         qr_handler on one /qr message                          *)
(*   SpecStart      start handler tasks, is_user_new, save_user_to_db      *)
(*   SpecBroadcast  broadcast over the stored users                        *)
(* The variables of the areas a specification does not run stay at rest.   *)
(***************************************************************************)
EXTENDS Integers, Sequences, FiniteSets, TLC

(***************************************************************************)
(* Characters                                                              *)
(***************************************************************************)

\* The printable ASCII characters in code order, U+0020 .. U+007E (the grave
\* accent is written "U+0060").
AsciiPrintable ==
  << " ", "!", "\"", "#", "$", "%", "&", "'", "(", ")", "*", "+", ",", "-", ".", "/",
     "0", "1", "2", "3", "4", "5", "6", "7", "8", "9", ":", ";", "<", "=", ">", "?",
     "@", "A", "B", "C", "D", "E", "F", "G", "H", "I", "J", "K", "L", "M", "N", "O",
     "P", "Q", "R", "S", "T", "U", "V", "W", "X", "Y", "Z", "[", "\\", "]", "^", "_",
     "U+0060", "a", "b", "c", "d", "e", "f", "g", "h", "i", "j", "k", "l", "m", "n", "o",
     "p", "q", "r", "s", "t", "u", "v", "w", "x", "y", "z", "{", "|", "}", "~" >>

\* The characters of the model: printable ASCII, tab, newline, e-acute and
\* ARABIC-INDIC DIGIT THREE.
Chars ==
  { AsciiPrintable[i] : i \in 1..Len(AsciiPrintable) } \cup { "\t", "\n", "U+00E9", "U+0663" }

\* The code point of a character (Python's ord).
CodePoint ==
  [ c \in Chars |->
      IF c = "\t" THEN 9
      ELSE IF c = "\n" THEN 10
      ELSE IF c = "U+00E9" THEN 233
      ELSE IF c = "U+0663" THEN 1635
      ELSE 31 + (CHOOSE i \in 1..Len(AsciiPrintable) : AsciiPrintable[i] = c) ]

\* The character of a code point (Python's chr), on the code points of Chars.
CharOf(n) ==
  IF \E c \in Chars : CodePoint[c] = n
  THEN CHOOSE c \in Chars : CodePoint[c] = n
  ELSE "U+FFFD"

InRange(c, lo, hi) == CodePoint[lo] <= CodePoint[c] /\ CodePoint[c] <= CodePoint[hi]

\* All sequences over S of length 0..n.
SeqsUpTo(S, n) == UNION { [1..k -> S] : k \in 0..n }

Min(a, b) == IF a <= b THEN a ELSE b

(***************************************************************************)
(* Validator: UPI_ID_REGEX, AMOUNT_REGEX, is_valid_upi_id, is_valid_amount *)
(***************************************************************************)

\* The repetition counts of UPI_ID_REGEX and AMOUNT_REGEX.
UPI_LOCAL_MIN == 2
UPI_LOCAL_MAX == 256
UPI_BANK_MIN == 2
UPI_BANK_MAX == 64
AMOUNT_FRAC_MIN == 1
AMOUNT_FRAC_MAX == 2

\* [a-zA-Z0-9.\-_]
UpiLocalClass(c) ==
  \/ InRange(c, "a", "z") \/ InRange(c, "A", "Z") \/ InRange(c, "0", "9")
  \/ c = "." \/ c = "-" \/ c = "_"

\* [a-zA-Z]
UpiBankClass(c) == InRange(c, "a", "z") \/ InRange(c, "A", "Z")

\* \d of a str pattern (no re.ASCII): any Unicode decimal digit; among Chars
\* these are 0-9 and ARABIC-INDIC DIGIT THREE.
DigitClass(c) == InRange(c, "0", "9") \/ c = "U+0663"

\* The character classes as sets.
UpiLocalSet == { c \in Chars : UpiLocalClass(c) }
UpiBankSet == { c \in Chars : UpiBankClass(c) }
DigitSet == { c \in Chars : DigitClass(c) }

\* s[from..to] lies inside s and every character of it is in Class.
AllIn(s, from, to, Class) ==
  /\ from >= 1 /\ to <= Len(s)
  /\ \A i \in from..to : s[i] \in Class

\* `$` of a pattern compiled without re.MULTILINE, at position p (the index of
\* the next unread character): the end of the string, or just before a
\* newline that is the last character of the string.
DollarAt(s, p) == p = Len(s) + 1 \/ (p = Len(s) /\ s[p] = "\n")

\* UPI_ID_REGEX.match(s): some k local characters, "@", some m bank
\* characters, then `$`.
UpiIdRegexMatch(s) ==
  \E k \in UPI_LOCAL_MIN..Min(UPI_LOCAL_MAX, Len(s)) :
    /\ AllIn(s, 1, k, UpiLocalSet)
    /\ k + 1 <= Len(s) /\ s[k + 1] = "@"
    /\ \E m \in UPI_BANK_MIN..Min(UPI_BANK_MAX, Len(s)) :
         /\ AllIn(s, k + 2, k + 1 + m, UpiBankSet)
         /\ DollarAt(s, k + 2 + m)

\* AMOUNT_REGEX.match(s): some n >= 1 digits, optionally "." and 1..2 digits,
\* then `$`.
AmountRegexMatch(s) ==
  \E n \in 1..Len(s) :
    /\ AllIn(s, 1, n, DigitSet)
    /\ \/ DollarAt(s, n + 1)
       \/ /\ n + 1 <= Len(s) /\ s[n + 1] = "."
          /\ \E f \in AMOUNT_FRAC_MIN..AMOUNT_FRAC_MAX :
               /\ AllIn(s, n + 2, n + 1 + f, DigitSet)
               /\ DollarAt(s, n + 2 + f)

is_valid_upi_id(upi_id) == UpiIdRegexMatch(upi_id)

\* The value of a digit character, as float() reads it.
DigitValue(c) == IF c = "U+0663" THEN 3 ELSE CodePoint[c] - CodePoint["0"]

\* The number a run of digits denotes.
RECURSIVE DigitsValue(_)
DigitsValue(ds) ==
  IF ds = <<>> THEN 0
  ELSE 10 * DigitsValue(SubSeq(ds, 1, Len(ds) - 1)) + DigitValue(ds[Len(ds)])

\* float(amount), for a string AMOUNT_REGEX accepts, in hundredths (exact:
\* at most two fractional digits).  float() ignores surrounding whitespace,
\* so a trailing newline does not change the value.
AmountHundredths(s) ==
  LET body == IF Len(s) > 0 /\ s[Len(s)] = "\n" THEN SubSeq(s, 1, Len(s) - 1) ELSE s
      dots == { i \in 1..Len(body) : body[i] = "." }
  IN IF dots = {} THEN 100 * DigitsValue(body)
     ELSE LET d == CHOOSE i \in dots : TRUE
              frac == SubSeq(body, d + 1, Len(body))
          IN 100 * DigitsValue(SubSeq(body, 1, d - 1))
             + (IF Len(frac) = 1 THEN 10 * DigitsValue(frac) ELSE DigitsValue(frac))

is_valid_amount(amount) ==
  IF ~AmountRegexMatch(amount) THEN FALSE
  ELSE AmountHundredths(amount) > 0

(***************************************************************************)
(* Link builder: urllib.parse.quote, str.strip, build_upi_link             *)
(***************************************************************************)

HexDigits == << "0", "1", "2", "3", "4", "5", "6", "7",
                "8", "9", "A", "B", "C", "D", "E", "F" >>

\* str.encode("utf-8") of one character, from its code point.
Utf8Bytes(cp) ==
  IF cp < 128 THEN << cp >>
  ELSE IF cp < 2048 THEN << 192 + (cp \div 64), 128 + (cp % 64) >>
  ELSE << 224 + (cp \div 4096), 128 + ((cp \div 64) % 64), 128 + (cp % 64) >>

\* The bytes quote() never escapes: ASCII letters, digits and "_.-~", and
\* its default safe="/".
QuoteSafeByte(b) ==
  \/ (b >= CodePoint["a"] /\ b <= CodePoint["z"])
  \/ (b >= CodePoint["A"] /\ b <= CodePoint["Z"])
  \/ (b >= CodePoint["0"] /\ b <= CodePoint["9"])
  \/ b \in { CodePoint["_"], CodePoint["."], CodePoint["-"], CodePoint["~"] }
  \/ b = CodePoint["/"]

\* quote() called with "&" among its safe characters.
QuoteByteAmpSafe(b) ==
  IF QuoteSafeByte(b) \/ b = CodePoint["&"] THEN << CharOf(b) >>
  ELSE << "%", HexDigits[(b \div 16) + 1], HexDigits[(b % 16) + 1] >>

QuoteByte(b) ==
  IF QuoteSafeByte(b) THEN << CharOf(b) >>
  ELSE << "%", HexDigits[(b \div 16) + 1], HexDigits[(b % 16) + 1] >>

RECURSIVE QuoteBytes(_)
QuoteBytes(bs) ==
  IF bs = <<>> THEN <<>> ELSE QuoteByte(Head(bs)) \o QuoteBytes(Tail(bs))

\* urllib.parse.quote(s): every byte of the UTF-8 encoding that is not safe
\* becomes %XX, upper-case hex.
RECURSIVE quote(_)
quote(s) ==
  IF s = <<>> THEN <<>>
  ELSE QuoteBytes(Utf8Bytes(CodePoint[Head(s)])) \o quote(Tail(s))

\* str.isspace on the characters of Chars.
IsSpace(c) == c \in { " ", "\t", "\n" }

RECURSIVE lstrip(_)
lstrip(s) == IF s # <<>> /\ IsSpace(Head(s)) THEN lstrip(Tail(s)) ELSE s

RECURSIVE rstrip(_)
rstrip(s) ==
  IF s # <<>> /\ IsSpace(s[Len(s)]) THEN rstrip(SubSeq(s, 1, Len(s) - 1)) ELSE s

\* str.strip()
strip(s) == rstrip(lstrip(s))

\* os.getenv("DEFAULT_PAYEE_NAME", "UPI Payment"), the variable not set.
DEFAULT_PAYEE_NAME == << "U", "P", "I", " ", "P", "a", "y", "m", "e", "n", "t" >>

\* os.getenv("DEFAULT_NOTE", "Payment"), the variable not set.
DEFAULT_NOTE == << "P", "a", "y", "m", "e", "n", "t" >>

\* Python's `a or b` on strings.
OrElse(a, b) == IF a # <<>> THEN a ELSE b

\* The variant of the builder that percent-encodes the `pa` field too.
build_upi_link_pa_encoded(upi_id, amount, payee_name, note) ==
  << "u", "p", "i", ":", "/", "/", "p", "a", "y", "?", "p", "a", "=" >> \o quote(upi_id)
    \o << "&", "p", "n", "=" >> \o quote(OrElse(strip(payee_name), DEFAULT_PAYEE_NAME))
    \o << "&", "a", "m", "=" >> \o amount
    \o << "&", "c", "u", "=", "I", "N", "R" >>
    \o << "&", "t", "n", "=" >> \o quote(OrElse(strip(note), DEFAULT_NOTE))

build_upi_link(upi_id, amount, payee_name, note) ==
  LET encoded_name == quote(OrElse(strip(payee_name), DEFAULT_PAYEE_NAME))
      encoded_note == quote(OrElse(strip(note), DEFAULT_NOTE))
  IN << "u", "p", "i", ":", "/", "/", "p", "a", "y", "?", "p", "a", "=" >> \o upi_id
       \o << "&", "p", "n", "=" >> \o encoded_name
       \o << "&", "a", "m", "=" >> \o amount
       \o << "&", "c", "u", "=", "I", "N", "R" >>
       \o << "&", "t", "n", "=" >> \o encoded_note

(***************************************************************************)
(* /qr: qr_handler                                                         *)
(***************************************************************************)

\* The texts of the three error replies (their Markdown markers left out).
USAGE_TEXT == "Invalid format. Use: /qr <upi_id> <amount> [payee_name] [note]"
INVALID_UPI_ID_TEXT == "Invalid UPI ID. Example valid format: yourname@okaxis"
INVALID_AMOUNT_TEXT ==
  "Invalid amount. Use a positive number with up to 2 decimals. Example: 149.99"

\* str.replace(old, new) for single characters.
Replace(s, old, new) == [ i \in 1..Len(s) |-> IF s[i] = old THEN new ELSE s[i] ]

\* The caption of the image reply (an f-string).
Caption(upi_id, amount, payee_name, note) ==
  << "U", "P", "I", " ", "Q", "R", " ", "G", "e", "n", "e", "r", "a", "t", "e", "d", "\n", "U+0060", "U", "P", "I", " ", "I", "D", ":", "U+0060", " ", "U+0060" >> \o upi_id
    \o << "U+0060", "\n", "U+0060", "A", "m", "o", "u", "n", "t", ":", "U+0060", " ", "U+0060", "I", "N", "R", " " >> \o amount
    \o << "U+0060", "\n", "U+0060", "P", "a", "y", "e", "e", ":", "U+0060", " ", "U+0060" >> \o payee_name
    \o << "U+0060", "\n", "U+0060", "N", "o", "t", "e", ":", "U+0060", " ", "U+0060" >> \o note
    \o << "U+0060" >>

\* create_styled_qr(data, payee, amount): the image is a function of the
\* encoded data and the two overlay texts; its buffer is named.
create_styled_qr(data, payee, amount) ==
  [ name |-> "styled_upi_qr.png", data |-> data, payee |-> payee, amount |-> amount ]

\* No image rendered yet.
NoImage == [ name |-> "", data |-> <<>>, payee |-> <<>>, amount |-> <<>> ]

(***************************************************************************)
(* db.py: the users collection                                             *)
(***************************************************************************)

\* users_collection.find_one({"_id": user_id}): the matching documents.
find_one(coll, user_id) == { i \in 1..Len(coll) : coll[i]._id = user_id }

\* is_user_new
is_user_new(coll, user_id) == find_one(coll, user_id) = {}

\* users_collection.update_one({"_id": user_id}, {"$set": {"name": user_name}},
\* upsert=True): one atomic step of the store.
save_user_to_db(coll, user_id, user_name) ==
  IF find_one(coll, user_id) = {}
  THEN Append(coll, [ _id |-> user_id, name |-> user_name ])
  ELSE [ i \in 1..Len(coll) |->
           IF coll[i]._id = user_id THEN [ coll[i] EXCEPT !.name = user_name ] ELSE coll[i] ]

(***************************************************************************)
(* /broadcast: names and texts                                             *)
(***************************************************************************)

\* The names the handlers use that bot.py's import block (lines 1-15) does
\* not bind: `db` (line 291; only is_user_new and save_user_to_db are imported
\* from db) and `asyncio` (line 334).  Using an unbound name raises NameError.
UnboundNames == { "db", "asyncio" }

BROADCAST_USAGE_TEXT == "Reply to a message or post to broadcast it."

\* The status text: its heading and the five counts.
StatusText(heading, total, ok, blocked, deleted, failed) ==
  [ heading |-> heading, total |-> total, successful |-> ok, blocked |-> blocked,
    deleted |-> deleted, unsuccessful |-> failed ]

(***************************************************************************)
(* State                                                                   *)
(***************************************************************************)

VARIABLES
  v_arg,      \* validator harness: the string under test
  v_upi,      \* is_valid_upi_id(v_arg), "unset" before the call
  v_amount,   \* is_valid_amount(v_arg), "unset" before the call
  l_upi_id,   \* link harness: the arguments of build_upi_link ...
  l_amount,
  l_payee_name,
  l_note,
  l_link,     \* ... and what it returned, <<>> before the call
  l_pc,       \* "input" before the call, "built" after it
  q_command,  \* /qr: message.command, a list of words, q_command[1] = "qr"
  q_pc,       \* /qr: where the handler stands
  q_upi_id,   \* /qr: the handler's locals ...
  q_amount,
  q_payee_name,
  q_note,
  q_upi_link,
  q_image_buffer,
  q_calls,    \* /qr: the calls made so far, in order
  q_texts,    \* /qr: the texts sent with reply_text, in order
  q_photos,   \* /qr: the [photo, caption] sent with reply_photo, in order
  users_collection,  \* db.py: the documents [_id, name] of the collection, in
                     \* insertion order (the order find() yields them in)
  log_channel,       \* the #NewUser messages delivered to LOG_CHANNEL: user ids
  s_pc,              \* /start, per handler task: where it stands
  s_user_id,         \* /start, per handler task: message.from_user.id
  s_user_name,       \* /start, per handler task: message.from_user.first_name
  s_is_new,          \* /start, per handler task: the local is_new
  module_names,      \* bot.py: which of `db`, `asyncio` its globals bind
  b_pc,              \* /broadcast: where the handler stands
  b_reply_to,        \* /broadcast: the kind of message.reply_to_message
  b_cursor,          \* /broadcast: the users the cursor has yet to yield
  b_user,            \* /broadcast: user["_id"] of the current iteration
  total_users,       \* /broadcast: the five counters
  successful,
  blocked_users,
  deleted_accounts,
  unsuccessful,
  b_flood,           \* /broadcast: e.x of the FloodWait being handled
  b_sends,           \* /broadcast: the sends attempted, [to, result], in order
  b_sleeps,          \* /broadcast: the asyncio.sleep durations, in order
  b_replies,         \* /broadcast: the message.reply calls, in order
  b_status,          \* /broadcast: the status texts edit_text was called with
  b_raised           \* /broadcast: the exception that ended the handler, or ""

valVars == <<v_arg, v_upi, v_amount>>
linkVars == <<l_upi_id, l_amount, l_payee_name, l_note, l_link, l_pc>>
qrVars == <<q_command, q_pc, q_upi_id, q_amount, q_payee_name, q_note, q_upi_link,
            q_image_buffer, q_calls, q_texts, q_photos>>
storeVars == <<users_collection, log_channel>>
startVars == <<s_pc, s_user_id, s_user_name, s_is_new>>
bcVars == <<module_names, b_pc, b_reply_to, b_cursor, b_user, total_users, successful,
            blocked_users, deleted_accounts, unsuccessful, b_flood, b_sends, b_sleeps,
            b_replies, b_status, b_raised>>
vars == <<valVars, linkVars, qrVars, storeVars, startVars, bcVars>>

\* The harnesses and handlers a specification does not run, at rest.
ValIdle == v_arg = <<>> /\ v_upi = "unset" /\ v_amount = "unset"
LinkIdle ==
  /\ l_upi_id = <<>> /\ l_amount = <<>> /\ l_payee_name = <<>> /\ l_note = <<>>
  /\ l_link = <<>> /\ l_pc = "idle"
QrIdle ==
  /\ q_command = <<>> /\ q_pc = "idle"
  /\ q_upi_id = <<>> /\ q_amount = <<>> /\ q_payee_name = <<>> /\ q_note = <<>>
  /\ q_upi_link = <<>> /\ q_image_buffer = NoImage
  /\ q_calls = <<>> /\ q_texts = <<>> /\ q_photos = <<>>
StoreIdle == users_collection = <<>> /\ log_channel = <<>>
StartIdle ==
  /\ s_pc = <<>> /\ s_user_id = <<>> /\ s_user_name = <<>> /\ s_is_new = <<>>
BroadcastIdle ==
  /\ module_names = {} /\ b_pc = "idle" /\ b_reply_to = "none"
  /\ b_cursor = <<>> /\ b_user = 0
  /\ total_users = 0 /\ successful = 0 /\ blocked_users = 0
  /\ deleted_accounts = 0 /\ unsuccessful = 0
  /\ b_flood = 0 /\ b_sends = <<>> /\ b_sleeps = <<>> /\ b_replies = <<>>
  /\ b_status = <<>> /\ b_raised = ""
OthersIdle == StoreIdle /\ StartIdle /\ BroadcastIdle

(***************************************************************************)
(* SpecValidate: the validators applied to bounded strings                 *)
(***************************************************************************)

MaxUpiLen == 6
MaxAmountLen == 5

UpiTestChars == { "a", "Z", "1", "_", "@", "\n" }
AmountTestChars == { "0", "5", ".", "-", "e", "\n", "U+0663" }

\* n copies of c.
Rep(c, n) == [ i \in 1..n |-> c ]

\* Strings at the regex's upper repetition bounds.
LongUpiInputs ==
  { Rep("a", UPI_LOCAL_MAX) \o <<"@", "a", "b">>,
    Rep("a", UPI_LOCAL_MAX + 1) \o <<"@", "a", "b">>,
    <<"a", "b", "@">> \o Rep("a", UPI_BANK_MAX),
    <<"a", "b", "@">> \o Rep("a", UPI_BANK_MAX + 1) }

ValInputs ==
  SeqsUpTo(UpiTestChars, MaxUpiLen) \cup SeqsUpTo(AmountTestChars, MaxAmountLen)
    \cup LongUpiInputs

\* A returned bool, as recorded by the harness.
Answer(b) == IF b THEN "True" ELSE "False"

ValInit ==
  /\ v_arg \in ValInputs
  /\ v_upi = "unset"
  /\ v_amount = "unset"
  /\ LinkIdle /\ QrIdle /\ OthersIdle

CallIsValidUpiId ==
  /\ v_upi = "unset"
  /\ v_upi' = Answer(is_valid_upi_id(v_arg))
  /\ UNCHANGED <<v_arg, v_amount, linkVars, qrVars, storeVars, startVars, bcVars>>

CallIsValidAmount ==
  /\ v_amount = "unset"
  /\ v_amount' = Answer(is_valid_amount(v_arg))
  /\ UNCHANGED <<v_arg, v_upi, linkVars, qrVars, storeVars, startVars, bcVars>>

ValNext == CallIsValidUpiId \/ CallIsValidAmount

SpecValidate == ValInit /\ [][ValNext]_vars

(***************************************************************************)
(* Claims C4, C5 (SpecValidate)                                            *)
(***************************************************************************)

AsciiLetters ==
  { "a", "b", "c", "d", "e", "f", "g", "h", "i", "j", "k", "l", "m",
    "n", "o", "p", "q", "r", "s", "t", "u", "v", "w", "x", "y", "z",
    "A", "B", "C", "D", "E", "F", "G", "H", "I", "J", "K", "L", "M",
    "N", "O", "P", "Q", "R", "S", "T", "U", "V", "W", "X", "Y", "Z" }

DecimalDigits == { "0", "1", "2", "3", "4", "5", "6", "7", "8", "9" }

\* The strings C4 describes: 2 to 256 characters from [A-Za-z0-9.-_], one
\* "@", 2 to 64 ASCII letters, and nothing else.
UpiShape(s) ==
  \E k \in 2..Min(256, Len(s)) :
    LET m == Len(s) - k - 1
    IN /\ m >= 2 /\ m <= 64
       /\ \A i \in 1..k : s[i] \in AsciiLetters \cup DecimalDigits \cup { ".", "-", "_" }
       /\ s[k + 1] = "@"
       /\ \A i \in (k + 2)..Len(s) : s[i] \in AsciiLetters

\* The strings C5 describes: one or more digits, optionally "." and 1 or 2
\* digits, and nothing else, with a value above zero (some digit is not 0).
AmountShape(s) ==
  /\ \E n \in 1..Len(s) : \E f \in 0..2 :
       /\ Len(s) = n + (IF f = 0 THEN 0 ELSE 1 + f)
       /\ \A i \in 1..n : s[i] \in DecimalDigits
       /\ f > 0 => s[n + 1] = "."
       /\ \A i \in (n + 2)..Len(s) : s[i] \in DecimalDigits
  /\ \E i \in 1..Len(s) : s[i] \in DecimalDigits \ { "0" }

\* C4: is_valid_upi_id(s) is true exactly for the strings of UpiShape; in
\* particular it is false for a valid id followed by a newline.
C4_UpiIdExactlyShape ==
  v_upi # "unset" => (v_upi = "True" <=> UpiShape(v_arg))

\* C4, as far as the code goes: is_valid_upi_id(s) is true exactly when s, or
\* s without one final newline, is of UpiShape.
ChopNewline(s) ==
  IF Len(s) > 0 /\ s[Len(s)] = "\n" THEN SubSeq(s, 1, Len(s) - 1) ELSE s

C4_UpiIdShapeUpToNewline ==
  v_upi # "unset" => (v_upi = "True" <=> UpiShape(ChopNewline(v_arg)))

\* C5: is_valid_amount(s) is true exactly for the strings of AmountShape.
C5_AmountExactlyShape ==
  v_amount # "unset" => (v_amount = "True" <=> AmountShape(v_arg))

\* C5, as far as the code goes: true exactly when s, or s without one final
\* newline, is of AmountShape, for s of ASCII characters.
C5_AmountShapeUpToNewline ==
  (v_amount # "unset" /\ \A i \in 1..Len(v_arg) : v_arg[i] # "U+0663")
    => (v_amount = "True" <=> AmountShape(ChopNewline(v_arg)))

(***************************************************************************)
(* SpecLink: build_upi_link applied to validated ids and amounts and       *)
(* bounded names and notes                                                 *)
(***************************************************************************)

MaxNameLen == 3
MaxNoteLen == 2

NameTestChars == { "a", " ", "&", "U+00E9" }
NoteTestChars == { "=", "%", "/", "\t" }

ExampleUpiId ==
  << "y", "o", "u", "r", "n", "a", "m", "e", "@", "o", "k", "a", "x", "i", "s" >>
ExampleAmount == << "1", "4", "9", ".", "9", "9" >>

\* The (upi_id, amount) pairs tried: those that pass both validators.
LinkIdsAndAmounts ==
  { p \in { << ExampleUpiId, ExampleAmount >>, << << "a", ".", "@", "u", "p" >>, << "5" >> >>,
            << << "a", "@", "u", "p" >>, << "0" >> >> } :
      is_valid_upi_id(p[1]) /\ is_valid_amount(p[2]) }

LinkInit ==
  /\ \E p \in LinkIdsAndAmounts : l_upi_id = p[1] /\ l_amount = p[2]
  /\ l_payee_name \in SeqsUpTo(NameTestChars, MaxNameLen) \cup { DEFAULT_PAYEE_NAME }
  /\ l_note \in SeqsUpTo(NoteTestChars, MaxNoteLen) \cup { DEFAULT_NOTE }
  /\ l_link = <<>>
  /\ l_pc = "input"
  /\ ValIdle /\ QrIdle /\ OthersIdle

CallBuildUpiLink ==
  /\ l_pc = "input"
  /\ l_link' = build_upi_link(l_upi_id, l_amount, l_payee_name, l_note)
  /\ l_pc' = "built"
  /\ UNCHANGED <<l_upi_id, l_amount, l_payee_name, l_note, valVars, qrVars,
                 storeVars, startVars, bcVars>>

LinkNext == CallBuildUpiLink

SpecLink == LinkInit /\ [][LinkNext]_vars

(***************************************************************************)
(* Claims C6, C7 (SpecLink)                                                *)
(***************************************************************************)

\* The percent-encoding of one character, written out: the characters of the
\* test alphabets that are escaped, every other one standing for itself.
PercentEncoded(c) ==
  CASE c = " "      -> << "%", "2", "0" >>
    [] c = "\t"     -> << "%", "0", "9" >>
    [] c = "\n"     -> << "%", "0", "A" >>
    [] c = "%"      -> << "%", "2", "5" >>
    [] c = "&"      -> << "%", "2", "6" >>
    [] c = "="      -> << "%", "3", "D" >>
    [] c = "U+00E9" -> << "%", "C", "3", "%", "A", "9" >>
    [] OTHER        -> << c >>

RECURSIVE PercentEncodedText(_)
PercentEncodedText(s) ==
  IF s = <<>> THEN <<>> ELSE PercentEncoded(Head(s)) \o PercentEncodedText(Tail(s))

Whitespace == { " ", "\t", "\n" }

\* s without its leading and trailing whitespace: from its first to its last
\* character that is not whitespace.
Trimmed(s) ==
  LET solid == { i \in 1..Len(s) : s[i] \notin Whitespace }
  IN IF solid = {} THEN <<>>
     ELSE SubSeq(s, CHOOSE i \in solid : \A j \in solid : i <= j,
                    CHOOSE i \in solid : \A j \in solid : i >= j)

\* The text a field carries: the trimmed input, or the default when that is
\* empty.
FieldText(s, default) == IF Trimmed(s) = <<>> THEN default ELSE Trimmed(s)

ExampleLink ==
  << "u", "p", "i", ":", "/", "/", "p", "a", "y", "?", "p", "a", "=", "y",
     "o", "u", "r", "n", "a", "m", "e", "@", "o", "k", "a", "x", "i", "s",
     "&", "p", "n", "=", "U", "P", "I", "%", "2", "0", "P", "a", "y", "m",
     "e", "n", "t", "&", "a", "m", "=", "1", "4", "9", ".", "9", "9", "&",
     "c", "u", "=", "I", "N", "R", "&", "t", "n", "=", "P", "a", "y", "m",
     "e", "n", "t" >>

\* C6: build_upi_link returns upi://pay?pa=<upi_id>&pn=<enc(name)>&am=<amount>
\* &cu=INR&tn=<enc(note)>, the five fields in that order, upi_id and amount
\* verbatim, name and note the percent-encoding of the stripped input or of
\* the default when that is empty; and ExampleLink for the example inputs.
C6_LinkFormat ==
  l_pc = "built" =>
    /\ l_link =
         << "u", "p", "i", ":", "/", "/", "p", "a", "y", "?" >>
           \o << "p", "a", "=" >> \o l_upi_id
           \o << "&", "p", "n", "=" >>
           \o PercentEncodedText(FieldText(l_payee_name, DEFAULT_PAYEE_NAME))
           \o << "&", "a", "m", "=" >> \o l_amount
           \o << "&", "c", "u", "=", "I", "N", "R" >>
           \o << "&", "t", "n", "=" >>
           \o PercentEncodedText(FieldText(l_note, DEFAULT_NOTE))
    /\ ( /\ l_upi_id = ExampleUpiId /\ l_amount = ExampleAmount
         /\ l_payee_name = DEFAULT_PAYEE_NAME /\ l_note = DEFAULT_NOTE )
       => l_link = ExampleLink

\* A link built from a name that is stripped and escaped and a blank note.
C6_Witness ==
  /\ l_pc = "built"
  /\ l_payee_name = << " ", "a", "&" >>
  /\ l_note = << "\t" >>
  /\ l_upi_id = ExampleUpiId

\* Reading a link back: split on "&", split each item on "=", percent-decode.
RECURSIVE Split(_, _)
Split(s, sep) ==
  IF \A i \in 1..Len(s) : s[i] # sep THEN << s >>
  ELSE LET p == CHOOSE i \in 1..Len(s) : s[i] = sep /\ \A j \in 1..(i - 1) : s[j] # sep
       IN << SubSeq(s, 1, p - 1) >> \o Split(SubSeq(s, p + 1, Len(s)), sep)

HexValue(c) == (CHOOSE i \in 1..16 : HexDigits[i] = c) - 1
IsHex(c) == \E i \in 1..16 : HexDigits[i] = c

\* s holds an escape %XX at position i.
EscapeAt(s, i) == i + 2 <= Len(s) /\ s[i] = "%" /\ IsHex(s[i + 1]) /\ IsHex(s[i + 2])
EscapeByte(s, i) == 16 * HexValue(s[i + 1]) + HexValue(s[i + 2])

\* Percent-decoding: each %XX is a byte, the bytes are UTF-8 (one- and
\* two-byte forms; anything else decodes to the replacement character).
RECURSIVE PercentDecoded(_)
PercentDecoded(s) ==
  IF s = <<>> THEN <<>>
  ELSE IF ~EscapeAt(s, 1) THEN << Head(s) >> \o PercentDecoded(Tail(s))
  ELSE LET b1 == EscapeByte(s, 1)
       IN IF b1 < 128 THEN << CharOf(b1) >> \o PercentDecoded(SubSeq(s, 4, Len(s)))
          ELSE IF b1 >= 192 /\ b1 < 224 /\ EscapeAt(s, 4)
                    /\ EscapeByte(s, 4) >= 128 /\ EscapeByte(s, 4) < 192
          THEN << CharOf((b1 - 192) * 64 + (EscapeByte(s, 4) - 128)) >>
                 \o PercentDecoded(SubSeq(s, 7, Len(s)))
          ELSE << "U+FFFD" >> \o PercentDecoded(SubSeq(s, 4, Len(s)))

\* The value of the item `key=value` of the link; << "U+FFFD" >> when the link
\* has no such item, or several, or the item does not split in two on "=".
FieldOf(link, key) ==
  LET items == Split(link, "&")
      hits == { i \in 1..Len(items) :
                  LET kv == Split(items[i], "=") IN Len(kv) >= 1 /\ kv[1] = key }
  IN IF Cardinality(hits) # 1 THEN << "U+FFFD" >>
     ELSE LET kv == Split(items[CHOOSE i \in hits : TRUE], "=")
          IN IF Len(kv) = 2 THEN kv[2] ELSE << "U+FFFD" >>

\* C7 as claimed: the link read back gives the amount, the payee_name and the
\* note that were passed in.
C7_RoundTripOriginal ==
  l_pc = "built" =>
    /\ FieldOf(l_link, << "a", "m" >>) = l_amount
    /\ PercentDecoded(FieldOf(l_link, << "p", "n" >>)) = l_payee_name
    /\ PercentDecoded(FieldOf(l_link, << "t", "n" >>)) = l_note

\* C7 amended: the link read back gives the amount that was passed in, and
\* for name and note the input without its leading and trailing whitespace,
\* or the default when nothing is left.
C7_RoundTripStripped ==
  l_pc = "built" =>
    /\ FieldOf(l_link, << "a", "m" >>) = l_amount
    /\ PercentDecoded(FieldOf(l_link, << "p", "n" >>))
         = FieldText(l_payee_name, DEFAULT_PAYEE_NAME)
    /\ PercentDecoded(FieldOf(l_link, << "t", "n" >>)) = FieldText(l_note, DEFAULT_NOTE)

\* A link read back whose name holds "&" and a non-ASCII character and whose
\* note holds "=" and "%".
C7_Witness ==
  /\ l_pc = "built"
  /\ l_payee_name = << "a", "&", "U+00E9" >>
  /\ l_note = << "=", "%" >>
  /\ PercentDecoded(FieldOf(l_link, << "p", "n" >>)) = l_payee_name

(***************************************************************************)
(* SpecQr: qr_handler on one /qr message                                   *)
(***************************************************************************)

QrWord == << "q", "r" >>

\* The words a /qr message is made of.
QrUpiWords ==
  { ExampleUpiId, << "a", ".", "@", "u", "p", "\n" >>,
    << "b", "a", "d", "_", "i", "d" >>, << "a", "@", "u", "p" >> }
QrAmountWords == { ExampleAmount, << "1", "0" >>, << "0", ".", "0" >>, << "1", ".", "2", "3", "4" >> }
QrNameWords == { << "J", "_", "D" >>, << "_" >>, << " ", "a", "&" >> }
QrNoteWords == { << "R", "e", "n", "t" >>, << "_", "_" >>, << "=" >> }

QrCommands ==
  { << QrWord >> }
    \cup { << QrWord, u >> : u \in QrUpiWords }
    \cup { << QrWord, u, a >> : u \in QrUpiWords, a \in QrAmountWords }
    \cup { << QrWord, u, a, n >> : u \in QrUpiWords, a \in QrAmountWords, n \in QrNameWords }
    \cup { << QrWord, u, a, n, t >> :
             u \in QrUpiWords, a \in QrAmountWords, n \in QrNameWords, t \in QrNoteWords }

QrInit ==
  /\ q_command \in QrCommands
  /\ q_pc = "arity"
  /\ q_upi_id = <<>> /\ q_amount = <<>> /\ q_payee_name = <<>> /\ q_note = <<>>
  /\ q_upi_link = <<>> /\ q_image_buffer = NoImage
  /\ q_calls = <<>> /\ q_texts = <<>> /\ q_photos = <<>>
  /\ ValIdle /\ LinkIdle /\ OthersIdle

\* Lines 163-176: the arity check, its reply, and the locals.
QrCheckArity ==
  /\ q_pc = "arity"
  /\ IF Len(q_command) < 3
     THEN /\ q_texts' = Append(q_texts, USAGE_TEXT)
          /\ q_calls' = Append(q_calls, "reply_text")
          /\ q_pc' = "done"
          /\ UNCHANGED <<q_upi_id, q_amount, q_payee_name, q_note>>
     ELSE /\ q_upi_id' = strip(q_command[2])
          /\ q_amount' = strip(q_command[3])
          /\ q_payee_name' = IF Len(q_command) >= 4 THEN Replace(q_command[4], "_", " ")
                             ELSE DEFAULT_PAYEE_NAME
          /\ q_note' = IF Len(q_command) >= 5 THEN Replace(q_command[5], "_", " ")
                       ELSE DEFAULT_NOTE
          /\ q_pc' = "upi_id"
          /\ UNCHANGED <<q_texts, q_calls>>
  /\ UNCHANGED <<q_command, q_upi_link, q_image_buffer, q_photos,
                 valVars, linkVars, storeVars, startVars, bcVars>>

\* The two checks in the other order.
QrCheckUpiIdAmountFirst ==
  /\ q_pc = "upi_id"
  /\ IF ~is_valid_amount(q_amount)
     THEN /\ q_texts' = Append(q_texts, INVALID_AMOUNT_TEXT)
          /\ q_calls' = Append(q_calls, "reply_text")
          /\ q_pc' = "done"
     ELSE IF ~is_valid_upi_id(q_upi_id)
     THEN /\ q_texts' = Append(q_texts, INVALID_UPI_ID_TEXT)
          /\ q_calls' = Append(q_calls, "reply_text")
          /\ q_pc' = "done"
     ELSE /\ q_pc' = "amount"
          /\ UNCHANGED <<q_texts, q_calls>>
  /\ UNCHANGED <<q_command, q_upi_id, q_amount, q_payee_name, q_note, q_upi_link,
                 q_image_buffer, q_photos, valVars, linkVars, storeVars, startVars, bcVars>>

\* Lines 178-182.
QrCheckUpiId ==
  /\ q_pc = "upi_id"
  /\ IF ~is_valid_upi_id(q_upi_id)
     THEN /\ q_texts' = Append(q_texts, INVALID_UPI_ID_TEXT)
          /\ q_calls' = Append(q_calls, "reply_text")
          /\ q_pc' = "done"
     ELSE /\ q_pc' = "amount"
          /\ UNCHANGED <<q_texts, q_calls>>
  /\ UNCHANGED <<q_command, q_upi_id, q_amount, q_payee_name, q_note, q_upi_link,
                 q_image_buffer, q_photos, valVars, linkVars, storeVars, startVars, bcVars>>

\* The amount check without its `return`.
QrCheckAmountNoReturn ==
  /\ q_pc = "amount"
  /\ IF ~is_valid_amount(q_amount)
     THEN /\ q_texts' = Append(q_texts, INVALID_AMOUNT_TEXT)
          /\ q_calls' = Append(q_calls, "reply_text")
     ELSE UNCHANGED <<q_texts, q_calls>>
  /\ q_pc' = "build"
  /\ UNCHANGED <<q_command, q_upi_id, q_amount, q_payee_name, q_note, q_upi_link,
                 q_image_buffer, q_photos, valVars, linkVars, storeVars, startVars, bcVars>>

\* Lines 184-188.
QrCheckAmount ==
  /\ q_pc = "amount"
  /\ IF ~is_valid_amount(q_amount)
     THEN /\ q_texts' = Append(q_texts, INVALID_AMOUNT_TEXT)
          /\ q_calls' = Append(q_calls, "reply_text")
          /\ q_pc' = "done"
     ELSE /\ q_pc' = "build"
          /\ UNCHANGED <<q_texts, q_calls>>
  /\ UNCHANGED <<q_command, q_upi_id, q_amount, q_payee_name, q_note, q_upi_link,
                 q_image_buffer, q_photos, valVars, linkVars, storeVars, startVars, bcVars>>

\* Line 190.
QrBuildLink ==
  /\ q_pc = "build"
  /\ q_upi_link' = build_upi_link(q_upi_id, q_amount, q_payee_name, q_note)
  /\ q_calls' = Append(q_calls, "build_upi_link")
  /\ q_pc' = "render"
  /\ UNCHANGED <<q_command, q_upi_id, q_amount, q_payee_name, q_note,
                 q_image_buffer, q_texts, q_photos, valVars, linkVars, storeVars, startVars, bcVars>>

\* Line 191.
QrRender ==
  /\ q_pc = "render"
  /\ q_image_buffer' = create_styled_qr(q_upi_link, q_payee_name, q_amount)
  /\ q_calls' = Append(q_calls, "create_styled_qr")
  /\ q_pc' = "send"
  /\ UNCHANGED <<q_command, q_upi_id, q_amount, q_payee_name, q_note,
                 q_upi_link, q_texts, q_photos, valVars, linkVars, storeVars, startVars, bcVars>>

\* Lines 193-202: the caption, the image reply and the log record.
QrReplyPhoto ==
  /\ q_pc = "send"
  /\ q_photos' = Append(q_photos,
                        [ photo |-> q_image_buffer,
                          caption |-> Caption(q_upi_id, q_amount, q_payee_name, q_note) ])
  /\ q_calls' = q_calls \o << "reply_photo", "logger.info" >>
  /\ q_pc' = "done"
  /\ UNCHANGED <<q_command, q_upi_id, q_amount, q_payee_name, q_note,
                 q_upi_link, q_image_buffer, q_texts, valVars, linkVars, storeVars, startVars, bcVars>>

QrNext ==
  \/ QrCheckArity \/ QrCheckUpiId \/ QrCheckAmount
  \/ QrBuildLink \/ QrRender \/ QrReplyPhoto

SpecQr == QrInit /\ [][QrNext]_vars

(***************************************************************************)
(* Claims C3, C9 (SpecQr)                                                  *)
(***************************************************************************)

\* What the message asks for, read off the message itself: fewer than two
\* arguments, a first argument that is no UPI id, a second that is no amount.
ArityFails(cmd) == Len(cmd) - 1 < 2
UpiIdFails(cmd) == ~UpiShape(Trimmed(cmd[2]))
AmountFails(cmd) == ~AmountShape(Trimmed(cmd[3]))
ValidationFails(cmd) == ArityFails(cmd) \/ UpiIdFails(cmd) \/ AmountFails(cmd)

BadIdCommand == << QrWord, << "b", "a", "d", "_", "i", "d" >>, << "1", "0" >> >>

\* C3: for a /qr message that fails validation the handler never builds a
\* link, renders or sends an image; the only call it makes is one reply_text,
\* and once it is done it has made exactly that call (`/qr bad_id 10`: the
\* invalid-UPI-ID text and no image).
C3_FailFast ==
  ValidationFails(q_command) =>
    /\ q_calls \in { <<>>, << "reply_text" >> }
    /\ Len(q_texts) = Len(q_calls)
    /\ q_upi_link = <<>> /\ q_image_buffer = NoImage /\ q_photos = <<>>
    /\ q_pc = "done" => q_calls = << "reply_text" >>
    /\ (q_pc = "done" /\ q_command = BadIdCommand) => q_texts = << INVALID_UPI_ID_TEXT >>

\* `/qr bad_id 10` answered.
C3_Witness ==
  /\ q_pc = "done"
  /\ q_command = BadIdCommand
  /\ q_texts = << INVALID_UPI_ID_TEXT >>
  /\ q_photos = <<>>

\* s occurs in t.
Contains(t, s) == \E i \in 1..(Len(t) - Len(s) + 1) : SubSeq(t, i, i + Len(s) - 1) = s

\* C9: every /qr message gets exactly one reply, chosen by the first failing
\* check in the order arity, UPI id, amount: the usage text, else the
\* invalid-UPI-ID text, else the invalid-amount text, else one image whose
\* caption carries the upi_id and the amount that are in the link.
C9_OneReplyInOrder ==
  /\ Len(q_texts) + Len(q_photos) <= 1
  /\ q_pc = "done" =>
       IF ArityFails(q_command) THEN q_texts = << USAGE_TEXT >> /\ q_photos = <<>>
       ELSE IF UpiIdFails(q_command) THEN q_texts = << INVALID_UPI_ID_TEXT >> /\ q_photos = <<>>
       ELSE IF AmountFails(q_command) THEN q_texts = << INVALID_AMOUNT_TEXT >> /\ q_photos = <<>>
       ELSE /\ q_texts = <<>> /\ Len(q_photos) = 1
            /\ LET link == q_photos[1].photo.data
                   pa == FieldOf(link, << "u", "p", "i", ":", "/", "/", "p", "a", "y", "?", "p", "a" >>)
                   am == FieldOf(link, << "a", "m" >>)
               IN /\ pa = Trimmed(q_command[2]) /\ am = Trimmed(q_command[3])
                  /\ Contains(q_photos[1].caption,
                              << "U+0060", "U", "P", "I", " ", "I", "D", ":", "U+0060", " ", "U+0060" >> \o pa \o << "U+0060", "\n" >>)
                  /\ Contains(q_photos[1].caption,
                              << "U+0060", "A", "m", "o", "u", "n", "t", ":", "U+0060", " ", "U+0060", "I", "N", "R", " " >> \o am \o << "U+0060", "\n" >>)

\* An image reply to a message with all four arguments.
C9_Witness ==
  /\ q_pc = "done"
  /\ Len(q_command) = 5
  /\ Len(q_photos) = 1
  /\ q_texts = <<>>

\* A message whose UPI id and amount are both invalid, answered.
C9_WitnessBothInvalid ==
  /\ q_pc = "done"
  /\ Len(q_command) >= 3 /\ UpiIdFails(q_command) /\ AmountFails(q_command)
  /\ q_texts = << INVALID_UPI_ID_TEXT >>

(***************************************************************************)
(* SpecStart: /start handler tasks running concurrently                    *)
(***************************************************************************)

NumStartTasks == 3
StartTasks == 1..NumStartTasks
UserIds == { 101, 102, 103 }
FirstNames == { "Ann", "Bob" }

StartInit ==
  /\ users_collection \in { <<>>, << [ _id |-> 103, name |-> "Ann" ] >> }
  /\ log_channel = <<>>
  /\ s_pc = [ h \in StartTasks |-> "is_new" ]
  /\ s_user_id \in [ StartTasks -> { 101, 102 } ]
  /\ s_user_name \in [ StartTasks -> FirstNames ]
  /\ s_is_new = [ h \in StartTasks |-> FALSE ]
  /\ ValIdle /\ LinkIdle /\ QrIdle /\ BroadcastIdle

\* Line 126: is_new = await is_user_new(user_id)
StartIsUserNew(h) ==
  /\ s_pc[h] = "is_new"
  /\ s_is_new' = [ s_is_new EXCEPT ![h] = is_user_new(users_collection, s_user_id[h]) ]
  /\ s_pc' = [ s_pc EXCEPT ![h] = "save" ]
  /\ UNCHANGED <<s_user_id, s_user_name, storeVars, valVars, linkVars, qrVars, bcVars>>

\* Line 127: await save_user_to_db(user_id, user_name)
StartSaveUser(h) ==
  /\ s_pc[h] = "save"
  /\ users_collection' = save_user_to_db(users_collection, s_user_id[h], s_user_name[h])
  /\ s_pc' = [ s_pc EXCEPT ![h] = IF s_is_new[h] THEN "notify" ELSE "photo" ]
  /\ UNCHANGED <<log_channel, s_user_id, s_user_name, s_is_new,
                 valVars, linkVars, qrVars, bcVars>>

\* Lines 128-141: the #NewUser message; a failed send is printed and dropped.
StartNotify(h) ==
  /\ s_pc[h] = "notify"
  /\ \E delivered \in BOOLEAN :
       log_channel' = IF delivered THEN Append(log_channel, s_user_id[h]) ELSE log_channel
  /\ s_pc' = [ s_pc EXCEPT ![h] = "photo" ]
  /\ UNCHANGED <<users_collection, s_user_id, s_user_name, s_is_new,
                 valVars, linkVars, qrVars, bcVars>>

\* Lines 143-159: the welcome photo.
StartSendPhoto(h) ==
  /\ s_pc[h] = "photo"
  /\ s_pc' = [ s_pc EXCEPT ![h] = "done" ]
  /\ UNCHANGED <<s_user_id, s_user_name, s_is_new, storeVars,
                 valVars, linkVars, qrVars, bcVars>>

StartNext ==
  \E h \in StartTasks :
    \/ StartIsUserNew(h)
    \/ StartSaveUser(h)
    \/ StartNotify(h)
    \/ StartSendPhoto(h)

SpecStart == StartInit /\ [][StartNext]_vars

(***************************************************************************)
(* Claim C10 (SpecStart)                                                   *)
(***************************************************************************)

Notifications(u) == { i \in 1..Len(log_channel) : log_channel[i] = u }
Records(u) == { i \in 1..Len(users_collection) : users_collection[i]._id = u }

\* C10: under any interleaving of /start handlers the new-user notification
\* is emitted at most once per user id and the store holds at most one record
\* per user id (that a stored record is never removed is C10_RecordsStay).
C10_NotifiedAtMostOnce ==
  \A u \in UserIds :
    /\ Cardinality(Notifications(u)) <= 1
    /\ Cardinality(Records(u)) <= 1

\* C10, the store alone: at most one record per user id.
C10_OneRecordPerUser == \A u \in UserIds : Cardinality(Records(u)) <= 1

\* C10, the store alone: a record once stored is never removed.
C10_RecordsStay ==
  [][ \A u \in UserIds : Records(u) # {} => Records(u)' # {} ]_vars

(***************************************************************************)
(* SpecBroadcast: the owner's /broadcast over the stored users             *)
(***************************************************************************)

MaxUsers == 3

\* The stores a broadcast may find: up to MaxUsers documents, ids distinct.
BroadcastStores ==
  { c \in SeqsUpTo([ _id : UserIds, name : { "Ann" } ], MaxUsers) :
      \A i, j \in 1..Len(c) : c[i]._id = c[j]._id => i = j }

\* message.reply_to_message: none, or a message with text, a photo, a video,
\* a document, or none of these (a sticker).
ReplyKinds == { "none", "text", "photo", "video", "document", "sticker" }
SendCall(kind) ==
  CASE kind = "text" -> "send_message"
    [] kind = "photo" -> "send_photo"
    [] kind = "video" -> "send_video"
    [] kind = "document" -> "send_document"
    [] OTHER -> ""

\* What a send may do: return, or raise.
SendResults == { "ok", "FloodWait", "UserIsBlocked", "PeerIdInvalid", "Exception" }
\* e.x of a FloodWait: the seconds to wait.
FloodWaitSeconds == { 5, 30 }

\* bot.py as written binds neither `db` nor `asyncio` (module_names = {});
\* the other namespaces are those of a bot.py with the missing imports added,
\* under which the loop of lines 308-364 runs.
BroadcastInit ==
  /\ users_collection \in BroadcastStores
  /\ log_channel = <<>>
  /\ module_names \in SUBSET UnboundNames
  /\ b_pc = "recv"
  /\ b_reply_to \in ReplyKinds
  /\ b_cursor = <<>> /\ b_user = 0
  /\ total_users = 0 /\ successful = 0 /\ blocked_users = 0
  /\ deleted_accounts = 0 /\ unsuccessful = 0
  /\ b_flood = 0 /\ b_sends = <<>> /\ b_sleeps = <<>> /\ b_replies = <<>>
  /\ b_status = <<>> /\ b_raised = ""
  /\ ValIdle /\ LinkIdle /\ QrIdle /\ StartIdle

\* Lines 286-306: the reply check, the cursor, the counters and the first
\* status message.
BroadcastStart ==
  /\ b_pc = "recv"
  /\ IF b_reply_to = "none"
     THEN /\ b_replies' = Append(b_replies, BROADCAST_USAGE_TEXT)
          /\ b_pc' = "returned"
          /\ UNCHANGED <<b_cursor, b_raised>>
     ELSE IF "db" \notin module_names
     THEN /\ b_raised' = "NameError: db"
          /\ b_pc' = "raised"
          /\ UNCHANGED <<b_cursor, b_replies>>
     ELSE /\ b_cursor' = [ i \in 1..Len(users_collection) |-> users_collection[i]._id ]
          /\ b_replies' = Append(b_replies, StatusText("process", 0, 0, 0, 0, 0))
          /\ \/ b_pc' = "next" /\ UNCHANGED b_raised
             \/ b_pc' = "raised" /\ b_raised' = "reply failed"
  /\ UNCHANGED <<module_names, b_reply_to, b_user, total_users, successful, blocked_users,
                 deleted_accounts, unsuccessful, b_flood, b_sends, b_sleeps, b_status,
                 storeVars, valVars, linkVars, qrVars, startVars>>

\* Lines 308-309: the next user of the cursor, or the end of the loop.
BroadcastNextUser ==
  /\ b_pc = "next"
  /\ IF b_cursor = <<>>
     THEN /\ b_pc' = "final"
          /\ UNCHANGED <<b_cursor, b_user, total_users>>
     ELSE /\ b_user' = Head(b_cursor)
          /\ b_cursor' = Tail(b_cursor)
          /\ total_users' = total_users + 1
          /\ b_pc' = "send"
  /\ UNCHANGED <<module_names, b_reply_to, successful, blocked_users, deleted_accounts,
                 unsuccessful, b_flood, b_sends, b_sleeps, b_replies, b_status, b_raised,
                 storeVars, valVars, linkVars, qrVars, startVars>>

\* Lines 310-341: the send that fits the message, and the except clauses.
\* A message that is neither text, photo, video nor document is sent to no
\* one and counted as successful.  In the FloodWait clause asyncio.sleep is
\* reached only when `asyncio` is bound; the NameError it raises otherwise
\* leaves the handler.
BroadcastSend ==
  /\ b_pc = "send"
  /\ IF SendCall(b_reply_to) = ""
     THEN /\ successful' = successful + 1
          /\ b_pc' = "edit"
          /\ UNCHANGED <<blocked_users, deleted_accounts, unsuccessful, b_flood, b_sends,
                         b_raised>>
     ELSE \E result \in SendResults :
            /\ b_sends' = Append(b_sends, [ to |-> b_user, call |-> SendCall(b_reply_to),
                                            result |-> result ])
            /\ successful' = IF result = "ok" THEN successful + 1 ELSE successful
            /\ blocked_users' =
                 IF result = "UserIsBlocked" THEN blocked_users + 1 ELSE blocked_users
            /\ deleted_accounts' =
                 IF result = "PeerIdInvalid" THEN deleted_accounts + 1 ELSE deleted_accounts
            /\ unsuccessful' = IF result = "Exception" THEN unsuccessful + 1 ELSE unsuccessful
            /\ IF result # "FloodWait"
               THEN b_pc' = "edit" /\ UNCHANGED <<b_flood, b_raised>>
               ELSE IF "asyncio" \in module_names
               THEN /\ b_pc' = "sleep"
                    /\ b_flood' \in FloodWaitSeconds
                    /\ UNCHANGED b_raised
               ELSE /\ b_pc' = "raised"
                    /\ b_raised' = "NameError: asyncio"
                    /\ UNCHANGED b_flood
  /\ UNCHANGED <<module_names, b_reply_to, b_cursor, b_user, total_users, b_sleeps,
                 b_replies, b_status, storeVars, valVars, linkVars, qrVars, startVars>>

\* Line 334: await asyncio.sleep(e.x); then on to the status edit.
BroadcastSleep ==
  /\ b_pc = "sleep"
  /\ b_sleeps' = Append(b_sleeps, b_flood)
  /\ b_pc' = "edit"
  /\ UNCHANGED <<module_names, b_reply_to, b_cursor, b_user, total_users, successful,
                 blocked_users, deleted_accounts, unsuccessful, b_flood, b_sends,
                 b_replies, b_status, b_raised,
                 storeVars, valVars, linkVars, qrVars, startVars>>

\* Lines 343-354: the running status; a failed edit is passed over.
BroadcastEditStatus ==
  /\ b_pc = "edit"
  /\ \E ok \in BOOLEAN :
       b_status' = Append(b_status,
                          [ text |-> StatusText("process", total_users, successful,
                                                blocked_users, deleted_accounts, unsuccessful),
                            ok |-> ok ])
  /\ b_pc' = "next"
  /\ UNCHANGED <<module_names, b_reply_to, b_cursor, b_user, total_users, successful,
                 blocked_users, deleted_accounts, unsuccessful, b_flood, b_sends, b_sleeps,
                 b_replies, b_raised,
                 storeVars, valVars, linkVars, qrVars, startVars>>

\* Lines 356-364: the final status; this edit is outside any try.
BroadcastFinalStatus ==
  /\ b_pc = "final"
  /\ \E ok \in BOOLEAN :
       /\ b_status' = Append(b_status,
                             [ text |-> StatusText("completed", total_users, successful,
                                                   blocked_users, deleted_accounts,
                                                   unsuccessful),
                               ok |-> ok ])
       /\ IF ok THEN b_pc' = "returned" /\ UNCHANGED b_raised
          ELSE b_pc' = "raised" /\ b_raised' = "edit_text failed"
  /\ UNCHANGED <<module_names, b_reply_to, b_cursor, b_user, total_users, successful,
                 blocked_users, deleted_accounts, unsuccessful, b_flood, b_sends, b_sleeps,
                 b_replies, storeVars, valVars, linkVars, qrVars, startVars>>

BroadcastNext ==
  \/ BroadcastStart \/ BroadcastNextUser \/ BroadcastSend
  \/ BroadcastSleep \/ BroadcastEditStatus \/ BroadcastFinalStatus

SpecBroadcast == BroadcastInit /\ [][BroadcastNext]_vars

(***************************************************************************)
(* Claims C1, C2, C8 (SpecBroadcast)                                       *)
(***************************************************************************)

\* The final tallies reported: the texts of the "completed" status edits.
FinalTallies ==
  { b_status[i].text : i \in { j \in 1..Len(b_status) : b_status[j].text.heading = "completed" } }

TallyAddsUp(t) ==
  /\ t.total = Len(users_collection)
  /\ t.total = t.successful + t.blocked + t.deleted + t.unsuccessful

C1_TallyAddsUpWithoutFloodWait ==
  (\A i \in 1..Len(b_sends) : b_sends[i].result # "FloodWait")
    => \A t \in FinalTallies : TallyAddsUp(t)

BroadcastEnded == b_pc \in { "returned", "raised" }

\* The users the sends went to, in order, each once.
RECURSIVE Recipients(_)
Recipients(sends) ==
  IF sends = <<>> THEN <<>>
  ELSE LET before == Recipients(SubSeq(sends, 1, Len(sends) - 1))
           to == sends[Len(sends)].to
       IN IF \E i \in 1..Len(before) : before[i] = to THEN before ELSE Append(before, to)

\* C8: a broadcast started as a reply to a message runs to completion: when
\* the handler has ended, every stored user got a send, in the order of the
\* store, and the "completed" status edit was issued.
C8_RunsToCompletion ==
  (b_reply_to # "none" /\ BroadcastEnded) =>
    /\ Recipients(b_sends) = [ i \in 1..Len(users_collection) |-> users_collection[i]._id ]
    /\ FinalTallies # {}

\* C8, as far as the code goes: with both names bound and a message the loop
\* has a send for, only a failure of the first status reply or of the final
\* edit ends the handler early, and every user gets exactly one send.
C8_CompletionWhenNamesBound ==
  ( /\ module_names = UnboundNames /\ b_reply_to \notin { "none", "sticker" }
    /\ BroadcastEnded /\ b_raised # "reply failed" ) =>
    /\ [ i \in 1..Len(b_sends) |-> b_sends[i].to ]
         = [ i \in 1..Len(users_collection) |-> users_collection[i]._id ]
    /\ FinalTallies # {}

=============================================================================
